---------------------------- MODULE Spec2Model ----------------------------
(***************************************************************************)
(* Model of pg_vault (src/src/pg_vault.c): a fixed-capacity store of       *)
(* (id, comment, key) items kept in one shared memory segment.             *)
(*                                                                         *)
(* The segment is modelled as the C code sees it: a range of bytes         *)
(* addressed by offset, holding the VaultInfoData header (lock, maxitems,  *)
(* nitems), the items[] array and the bytes left over after the last whole *)
(* item.  memcpy and memset write address ranges and the reads start at an *)
(* address, so a copy that runs past the end of a char array lands in the  *)
(* bytes that follow it in memory, as it does in the program.              *)
(*                                                                         *)
(* Notation for bytes: a byte string is a sequence of runs <<c, n>>, n     *)
(* bytes of value c, adjacent runs holding different values                *)
(* (<<97, 98, 98>> is written << <<97, 1>>, <<98, 2>> >>).  A char array   *)
(* of the segment is written as its bytes up to the last non-zero one; the *)
(* bytes after them, up to the size of the array, are zero.                *)
(***************************************************************************)
EXTENDS Integers, Sequences, FiniteSets, TLC

(***************************************************************************)
(* Program constants                                                       *)
(***************************************************************************)
MAX_ID_LENGTH == 64
MAX_COMMENT_LENGTH == 255
MAX_KEY_LENGTH == 1024

\* sizeof(VaultItemData): three char arrays, no padding
sizeof_VaultItemData == MAX_ID_LENGTH + MAX_COMMENT_LENGTH + MAX_KEY_LENGTH

\* offsets of the fields of VaultItemData
offsetof_id == 0
offsetof_comment == MAX_ID_LENGTH
offsetof_key == MAX_ID_LENGTH + MAX_COMMENT_LENGTH

\* offsets of the fields of VaultInfoData (LWLockId and int are 4 bytes wide)
offsetof_lock == 0
offsetof_maxitems == 4
offsetof_nitems == 8
offsetof_items == 12

\* sizes of the varlena headers: the 4-byte one, the 1-byte one and the one
\* of an external (toasted) value
VARHDRSZ == 4
VARHDRSZ_SHORT == 1
VARHDRSZ_EXTERNAL == 2

(***************************************************************************)
(* Bounds of the model                                                     *)
(***************************************************************************)
\* number of whole items the configured segment has room for
RegionSlots == 2
\* bytes of the segment left over after the last whole item
\* (the default 1 MB segment leaves 1024)
RegionSlack == 1024

\* pg_vault.max_size: the size of the segment in bytes
pgvault_mem_max_size ==
    offsetof_items + RegionSlots * sizeof_VaultItemData + RegionSlack

\* the LWLockId handed out by LWLockAssign()
LWLockAssign == 1

(***************************************************************************)
(* Byte strings                                                            *)
(***************************************************************************)
Max(a, b) == IF a >= b THEN a ELSE b
Min(a, b) == IF a <= b THEN a ELSE b

\* n bytes of value c
Fill(c, n) == IF n <= 0 THEN <<>> ELSE << <<c, n>> >>

\* the concatenation of two byte strings
Cat(a, b) ==
    IF a = <<>> THEN b
    ELSE IF b = <<>> THEN a
    ELSE IF a[Len(a)][1] = b[1][1]
    THEN SubSeq(a, 1, Len(a) - 1)
           \o << <<b[1][1], a[Len(a)][2] + b[1][2]>> >> \o Tail(b)
    ELSE a \o b

\* the byte string of a sequence of byte values
RECURSIVE Bytes(_)
Bytes(seq) ==
    IF seq = <<>> THEN <<>> ELSE Cat(<< <<Head(seq), 1>> >>, Bytes(Tail(seq)))

\* the number of bytes of a byte string
RECURSIVE BLen(_)
BLen(b) == IF b = <<>> THEN 0 ELSE b[1][2] + BLen(Tail(b))

\* byte k (1-based) of a byte string
RECURSIVE BAt(_, _)
BAt(b, k) == IF k <= b[1][2] THEN b[1][1] ELSE BAt(Tail(b), k - b[1][2])

\* the first n bytes of a byte string (all of it when it has fewer)
RECURSIVE Take(_, _)
Take(b, n) ==
    IF n <= 0 \/ b = <<>> THEN <<>>
    ELSE IF n >= b[1][2] THEN Cat(<<b[1]>>, Take(Tail(b), n - b[1][2]))
    ELSE << <<b[1][1], n>> >>

\* a byte string without its first n bytes
RECURSIVE Drop(_, _)
Drop(b, n) ==
    IF n <= 0 \/ b = <<>> THEN b
    ELSE IF n >= b[1][2] THEN Drop(Tail(b), n - b[1][2])
    ELSE << <<b[1][1], b[1][2] - n>> >> \o Tail(b)

\* bytes i..j (1-based) of a byte string
Sub(b, i, j) == Take(Drop(b, i - 1), j - i + 1)

\* a byte string without its trailing zero bytes (the notation of a char array)
Trim(b) ==
    IF b # <<>> /\ b[Len(b)][1] = 0 THEN SubSeq(b, 1, Len(b) - 1) ELSE b

\* byte k (1-based) of a char array
Byte(f, k) == IF k <= BLen(f) THEN BAt(f, k) ELSE 0

\* the first n bytes of a char array
Prefix(f, n) == Cat(Take(f, n), Fill(0, n - BLen(f)))

\* strlen() of a C string held in a byte string: the number of bytes before
\* its first zero byte (or its end)
RECURSIVE strlen(_)
strlen(s) ==
    IF s = <<>> \/ s[1][1] = 0 THEN 0 ELSE s[1][2] + strlen(Tail(s))

(***************************************************************************)
(* The segment                                                             *)
(***************************************************************************)
\* one VaultItemData with all bytes zero
ZeroItem == [id |-> <<>>, comment |-> <<>>, key |-> <<>>]

\* number of VaultItemData that lie wholly inside the segment
ItemsInRegion == (pgvault_mem_max_size - offsetof_items) \div sizeof_VaultItemData

\* address of the first byte after the last whole item
TailAddr == offsetof_items + ItemsInRegion * sizeof_VaultItemData

\* address of items[i] and of its fields
ItemAddr(i) == offsetof_items + i * sizeof_VaultItemData
IdAddr(i) == ItemAddr(i) + offsetof_id
CommentAddr(i) == ItemAddr(i) + offsetof_comment
KeyAddr(i) == ItemAddr(i) + offsetof_key

\* index of the item that holds address addr of the items area
ItemIndex(addr) == (addr - offsetof_items) \div sizeof_VaultItemData

\* the char array that holds address addr (from items[0] to the end of the
\* segment), the address it starts at and its size; an address outside the
\* segment is in no array
ArrayAt(v, addr) ==
    CASE addr >= TailAddr /\ addr < pgvault_mem_max_size ->
           [bytes |-> v.tail, addr |-> TailAddr,
            size |-> pgvault_mem_max_size - TailAddr]
      [] addr >= offsetof_items /\ addr < TailAddr ->
           LET i == ItemIndex(addr)
               off == (addr - offsetof_items) % sizeof_VaultItemData
           IN  IF off < offsetof_comment
               THEN [bytes |-> v.items[i].id, addr |-> IdAddr(i),
                     size |-> MAX_ID_LENGTH]
               ELSE IF off < offsetof_key
               THEN [bytes |-> v.items[i].comment, addr |-> CommentAddr(i),
                     size |-> MAX_COMMENT_LENGTH]
               ELSE [bytes |-> v.items[i].key, addr |-> KeyAddr(i),
                     size |-> MAX_KEY_LENGTH]

\* the byte at address addr
MemByte(v, addr) ==
    LET a == ArrayAt(v, addr) IN Byte(a.bytes, addr - a.addr + 1)

\* n bytes read from address addr, array by array
RECURSIVE ReadMem(_, _, _)
ReadMem(v, addr, n) ==
    IF n <= 0 THEN <<>>
    ELSE LET a == ArrayAt(v, addr)
             off == addr - a.addr
             m == Min(n, a.size - off)
         IN  Cat(Sub(Prefix(a.bytes, off + m), off + 1, off + m),
                 ReadMem(v, addr + m, n - m))

\* the C string that starts at address addr: the bytes up to the first zero
\* byte, which is looked for array by array
RECURSIVE CStringAt(_, _)
CStringAt(v, addr) ==
    LET a == ArrayAt(v, addr)
        off == addr - a.addr
        rest == Drop(a.bytes, off)
    IN  IF strlen(rest) < a.size - off
        THEN Take(rest, strlen(rest))
        ELSE Cat(rest, CStringAt(v, a.addr + a.size))

\* a char array of fsize bytes at address faddr after n bytes of src were
\* written at address addr: the bytes of the range that fall inside the array
\* are replaced, the others keep their value
FieldWrite(f, faddr, fsize, addr, src, n) ==
    LET lo == Max(addr - faddr + 1, 1)
        hi == Min(addr + n - faddr, fsize)
    IN  IF n <= 0 \/ hi < 1 \/ lo > hi THEN f
        ELSE Trim(Cat(Cat(Prefix(f, lo - 1),
                          Sub(src, lo + faddr - addr, hi + faddr - addr)),
                      Drop(f, hi)))

\* the same after n bytes of value c were set at address addr
FieldSet(f, faddr, fsize, addr, c, n) ==
    LET lo == Max(addr - faddr + 1, 1)
        hi == Min(addr + n - faddr, fsize)
    IN  IF n <= 0 \/ hi < 1 \/ lo > hi THEN f
        ELSE Trim(Cat(Cat(Prefix(f, lo - 1), Fill(c, hi - lo + 1)), Drop(f, hi)))

\* an int of the header at address faddr after n bytes of value c were set at
\* address addr
IntSet(x, faddr, addr, c, n) ==
    IF addr <= faddr /\ addr + n >= faddr + 4 /\ c = 0 THEN 0 ELSE x

\* items[], from item i on, after n bytes of src were written at address addr
RECURSIVE ItemsWrite(_, _, _, _, _)
ItemsWrite(items, i, addr, src, n) ==
    IF i \notin DOMAIN items \/ addr + n <= ItemAddr(i) THEN items
    ELSE ItemsWrite(
           [items EXCEPT ![i] =
              [id      |-> FieldWrite(items[i].id, IdAddr(i), MAX_ID_LENGTH,
                                      addr, src, n),
               comment |-> FieldWrite(items[i].comment, CommentAddr(i),
                                      MAX_COMMENT_LENGTH, addr, src, n),
               key     |-> FieldWrite(items[i].key, KeyAddr(i), MAX_KEY_LENGTH,
                                      addr, src, n)]],
           i + 1, addr, src, n)

\* items[], from item i on, after n bytes of value c were set at address addr
RECURSIVE ItemsSet(_, _, _, _, _)
ItemsSet(items, i, addr, c, n) ==
    IF i \notin DOMAIN items \/ addr + n <= ItemAddr(i) THEN items
    ELSE ItemsSet(
           [items EXCEPT ![i] =
              [id      |-> FieldSet(items[i].id, IdAddr(i), MAX_ID_LENGTH,
                                    addr, c, n),
               comment |-> FieldSet(items[i].comment, CommentAddr(i),
                                    MAX_COMMENT_LENGTH, addr, c, n),
               key     |-> FieldSet(items[i].key, KeyAddr(i), MAX_KEY_LENGTH,
                                    addr, c, n)]],
           i + 1, addr, c, n)

\* memcpy(v + addr, src, n) for an address in the items area
memcpy(v, addr, src, n) ==
    [v EXCEPT !.items = ItemsWrite(v.items, Max(ItemIndex(addr), 0), addr, src, n),
              !.tail  = FieldWrite(v.tail, TailAddr, pgvault_mem_max_size - TailAddr,
                                   addr, src, n)]

\* memset(v + addr, c, n)
memset(v, addr, c, n) ==
    [lock     |-> IntSet(v.lock, offsetof_lock, addr, c, n),
     maxitems |-> IntSet(v.maxitems, offsetof_maxitems, addr, c, n),
     nitems   |-> IntSet(v.nitems, offsetof_nitems, addr, c, n),
     items    |-> ItemsSet(v.items, Max(ItemIndex(addr), 0), addr, c, n),
     tail     |-> FieldSet(v.tail, TailAddr, pgvault_mem_max_size - TailAddr,
                           addr, c, n)]

(***************************************************************************)
(* Datums, C strings and varlena values                                    *)
(***************************************************************************)
\* an SQL argument or result: NULL, or a value given by its bytes (the
\* characters of a text, the data bytes of a bytea)
NullDatum == [isnull |-> TRUE, val |-> <<>>]
Datum(bytes) == [isnull |-> FALSE, val |-> bytes]

\* text_to_cstring(): the characters followed by the terminating zero byte
text_to_cstring(t) == Cat(t.val, Fill(0, 1))

\* cstring_to_text() / CStringGetTextDatum(): the characters before the zero
CStringGetTextDatum(s) == Datum(Take(s, strlen(s)))

\* byte k (0-based) of the 32-bit word x stored little-endian
WordByte(x, k) ==
    CASE k = 0 -> x % 256
      [] k = 1 -> (x \div 256) % 256
      [] k = 2 -> (x \div 65536) % 256
      [] k = 3 -> (x \div 16777216) % 256

\* PG_GETARG_BYTEA_P(): the detoasted value, which always carries the 4-byte
\* header; SET_VARSIZE stores the total size shifted left by two bits
PG_GETARG_BYTEA_P(d) ==
    LET hdr == (BLen(d.val) + VARHDRSZ) * 4
    IN  Cat(Bytes([k \in 1..VARHDRSZ |-> WordByte(hdr, k - 1)]), d.val)

\* VARSIZE_ANY() of the varlena b: the total size as read from its header
\* (an external value, a value with a 1-byte header, a value with a 4-byte one)
VARSIZE_ANY(b) ==
    IF Byte(b, 1) = 1 THEN Byte(b, 2)
    ELSE IF Byte(b, 1) % 2 = 1 THEN (Byte(b, 1) \div 2) % 128
    ELSE ((Byte(b, 1) \div 4) + 64 * Byte(b, 2) + 16384 * Byte(b, 3)
            + 4194304 * Byte(b, 4)) % 1073741824

\* size of the header of the varlena b
VARHDRSZ_ANY(b) ==
    IF Byte(b, 1) = 1 THEN VARHDRSZ_EXTERNAL
    ELSE IF Byte(b, 1) % 2 = 1 THEN VARHDRSZ_SHORT
    ELSE VARHDRSZ

\* VARSIZE_ANY_EXHDR(): the number of data bytes
VARSIZE_ANY_EXHDR(b) == VARSIZE_ANY(b) - VARHDRSZ_ANY(b)

\* PG_RETURN_BYTEA_P(): the data bytes of a varlena, as the caller sees them
PG_RETURN_BYTEA_P(b) == Datum(Sub(b, VARHDRSZ_ANY(b) + 1, VARSIZE_ANY(b)))

\* strcmp(v + addr, s) == 0
strcmp_eq(v, addr, s) == CStringAt(v, addr) = Take(s, strlen(s))

(***************************************************************************)
(* pgvault_shmem_startup                                                   *)
(***************************************************************************)
\* the segment as ShmemInitStruct hands it out the first time: its bytes are
\* whatever they are, here every byte of the arrays and every int g
RawBytes == {0, 85, 255}
RawSegment(g) ==
    [lock |-> g, maxitems |-> g, nitems |-> g,
     items |-> [i \in 0..(ItemsInRegion - 1) |->
                  [id |-> Trim(Fill(g, MAX_ID_LENGTH)),
                   comment |-> Trim(Fill(g, MAX_COMMENT_LENGTH)),
                   key |-> Trim(Fill(g, MAX_KEY_LENGTH))]],
     tail |-> Trim(Fill(g, pgvault_mem_max_size - TailAddr))]

\* a startup that initializes the segment whether or not it was found
pgvault_shmem_startup_always(v, found) ==
    [memset(v, 0, 0, pgvault_mem_max_size) EXCEPT
        !.lock = LWLockAssign,
        !.maxitems = (pgvault_mem_max_size - offsetof_items)
                        \div sizeof_VaultItemData]

\* the body of pgvault_shmem_startup on segment v
pgvault_shmem_startup(v, found) ==
    IF ~found
    THEN [memset(v, 0, 0, pgvault_mem_max_size) EXCEPT
            !.lock = LWLockAssign,
            !.maxitems = (pgvault_mem_max_size - offsetof_items)
                            \div sizeof_VaultItemData]
    ELSE v

(***************************************************************************)
(* add_key                                                                 *)
(***************************************************************************)
\* the outcome of a call: the segment after it, the error raised by elog
\* ("none" when the call returns), the Datum returned, the rows returned
Outcome(v, err, ret, rows) == [vault |-> v, error |-> err, ret |-> ret, rows |-> rows]

\* the scan loop shared by add_key, delete_key and lookup_key, from item i on:
\* the index of the first item below nitems whose id equals the C string s,
\* or -1
RECURSIVE FindFrom(_, _, _)
FindFrom(v, s, i) ==
    IF i >= v.nitems THEN -1
    ELSE IF strcmp_eq(v, IdAddr(i), s) THEN i
    ELSE FindFrom(v, s, i + 1)

FindItem(v, s) == FindFrom(v, s, 0)

\* the locked section of add_key that writes the new item
add_key_store(v, id, key, comment_null, comment) ==
    LET n  == v.nitems
        v1 == memcpy(v, IdAddr(n), id, strlen(id))
        v2 == memcpy(v1, KeyAddr(n), key, VARSIZE_ANY(key))
        v3 == IF ~comment_null
              THEN memcpy(v2, CommentAddr(n), comment, strlen(comment))
              ELSE v2
    IN  [v3 EXCEPT !.nitems = n + 1]

\* a guard that tests only for room (it lets a duplicate id be written)
add_key_may_store_unless_full(vault_is_full, key_id_unique) ==
    ~vault_is_full

\* the test that guards the write: the key is added only if the vault is not
\* full and the id is unique
add_key_may_store(vault_is_full, key_id_unique) ==
    ~vault_is_full /\ key_id_unique

\* the errors in the other order: the full vault is reported first
add_key_report_full_first(vault_is_full, key_id_unique) ==
    IF vault_is_full THEN "cannot add a key - the vault is full"
    ELSE IF ~key_id_unique THEN "the supplied key ID is not unique"
    ELSE "none"

\* the errors raised after the lock is released, in the order of the code
add_key_report(vault_is_full, key_id_unique) ==
    IF ~key_id_unique THEN "the supplied key ID is not unique"
    ELSE IF vault_is_full THEN "cannot add a key - the vault is full"
    ELSE "none"

add_key(v, a_id, a_key, a_comment) ==
    IF a_id.isnull THEN Outcome(v, "key ID must not be NULL", NullDatum, <<>>)
    ELSE IF a_key.isnull THEN Outcome(v, "key data must not be NULL", NullDatum, <<>>)
    ELSE
    LET id      == text_to_cstring(a_id)
        key     == PG_GETARG_BYTEA_P(a_key)
        comment == text_to_cstring(a_comment)
    IN  IF strlen(id) >= MAX_ID_LENGTH
        THEN Outcome(v, "key ID too long", NullDatum, <<>>)
        ELSE IF ~a_comment.isnull /\ strlen(comment) >= MAX_COMMENT_LENGTH
        THEN Outcome(v, "comment too long", NullDatum, <<>>)
        ELSE IF VARSIZE_ANY_EXHDR(key) >= MAX_KEY_LENGTH
        THEN Outcome(v, "key too long", NullDatum, <<>>)
        ELSE
        LET key_id_unique == FindItem(v, id) = -1
            vault_is_full == v.nitems >= v.maxitems
            v1 == IF add_key_may_store(vault_is_full, key_id_unique)
                  THEN add_key_store(v, id, key, a_comment.isnull, comment)
                  ELSE v
        IN  Outcome(v1, add_key_report(vault_is_full, key_id_unique), NullDatum, <<>>)

(***************************************************************************)
(* delete_key                                                              *)
(***************************************************************************)
\* the body of the matching branch of the loop, items[i] found: nitems is
\* decremented and the sizeof(VaultItemData) bytes of items[nitems], its three
\* arrays, are copied over those of items[i] (when i = nitems the source and
\* the destination are the same bytes and the copy leaves them as they are)
delete_key_at(v, i) ==
    LET n == v.nitems - 1
    IN  [v EXCEPT !.nitems = n, !.items[i] = v.items[n]]

\* a delete_key that drops the last item when no item matches
delete_key_drops_last(v, a_id) ==
    IF a_id.isnull THEN Outcome(v, "key ID must not be NULL", NullDatum, <<>>)
    ELSE
    LET id == text_to_cstring(a_id)
        i  == FindItem(v, id)
    IN  Outcome(IF i # -1 THEN delete_key_at(v, i)
                ELSE IF v.nitems > 0 THEN [v EXCEPT !.nitems = v.nitems - 1]
                ELSE v,
                "none", NullDatum, <<>>)

delete_key(v, a_id) ==
    IF a_id.isnull THEN Outcome(v, "key ID must not be NULL", NullDatum, <<>>)
    ELSE
    LET id == text_to_cstring(a_id)
        i  == FindItem(v, id)
    IN  Outcome(IF i # -1 THEN delete_key_at(v, i) ELSE v, "none", NullDatum, <<>>)

(***************************************************************************)
(* lookup_key                                                              *)
(***************************************************************************)
\* the copy of the key of items[i] made by palloc + memcpy
lookup_key_copy(v, i) ==
    ReadMem(v, KeyAddr(i), VARSIZE_ANY(ReadMem(v, KeyAddr(i), VARHDRSZ)))

lookup_key(v, a_id) ==
    IF a_id.isnull THEN Outcome(v, "key ID must not be NULL", NullDatum, <<>>)
    ELSE
    LET id == text_to_cstring(a_id)
        i  == FindItem(v, id)
    IN  IF i # -1
        THEN Outcome(v, "none", PG_RETURN_BYTEA_P(lookup_key_copy(v, i)), <<>>)
        ELSE Outcome(v, "none", NullDatum, <<>>)

(***************************************************************************)
(* vault_copy, list_keys, delete_keys                                      *)
(***************************************************************************)
\* the loop of vault_copy from item i on
RECURSIVE vault_copy_strip(_, _)
vault_copy_strip(copy, i) ==
    IF i < copy.nitems
    THEN vault_copy_strip(memset(copy, KeyAddr(i), 0, MAX_KEY_LENGTH), i + 1)
    ELSE copy

\* vault_copy: the whole segment is copied, then the keys are zeroed (the
\* code does so whatever strip_keys is)
vault_copy(v, strip_keys) == vault_copy_strip(v, 0)

\* a tuple whose key column is set from the key array of the copy
list_keys_tuple_with_key(vault, call_cntr) ==
    [id      |-> CStringGetTextDatum(CStringAt(vault, IdAddr(call_cntr))),
     key     |-> Datum(vault.items[call_cntr].key),
     comment |-> CStringGetTextDatum(CStringAt(vault, CommentAddr(call_cntr)))]

\* the tuple list_keys builds on the call with counter call_cntr
list_keys_tuple(vault, call_cntr) ==
    [id      |-> CStringGetTextDatum(CStringAt(vault, IdAddr(call_cntr))),
     key     |-> NullDatum,
     comment |-> CStringGetTextDatum(CStringAt(vault, CommentAddr(call_cntr)))]

\* list_keys, from the first call to the call that ends the set
list_keys(v) ==
    LET max_calls == v.nitems
        user_fctx == vault_copy(v, TRUE)
    IN  Outcome(v, "none", NullDatum,
                [c \in 1..max_calls |-> list_keys_tuple(user_fctx, c - 1)])

\* a delete_keys that clears the items but not nitems
delete_keys_from_items(v) ==
    Outcome(memset(v, offsetof_items, 0, pgvault_mem_max_size - offsetof_items),
            "none", NullDatum, <<>>)

delete_keys(v) ==
    Outcome(memset(v, offsetof_nitems, 0, pgvault_mem_max_size - offsetof_nitems),
            "none", NullDatum, <<>>)

(***************************************************************************)
(* The state machine: one backend calling the SQL functions, each call     *)
(* running from its entry to its return                                    *)
(***************************************************************************)
VARIABLES
    vault_info,   \* the shared segment (what vault_info points to)
    last,         \* the last call: function, arguments, error, result
    adds,         \* history: whether every call so far was an add_key with
                  \* in-bound arguments and an id not supplied before, and
                  \* the ids supplied by those calls
    lwlock,       \* vault_info->lock: the mode each backend holds it in
    backend       \* each backend's position in its call and its local
                  \* variables

vars == <<vault_info, last, adds, lwlock, backend>>

\* number of backends that call the functions concurrently
NBackends == 2
Backends == 1..NBackends

\* a backend that is in no call: the locals of the functions at their
\* initial values, the error its last call raised ("none" at first), and,
\* kept for the statements about a call, nitems and whether the id was
\* absent when the call began (n0, absent0) and the segment when list_keys
\* copied it (snapshot)
IdleBackend ==
    [pc |-> "idle", error |-> "none",
     id |-> NullDatum, key |-> NullDatum, comment |-> NullDatum,
     key_id_unique |-> TRUE, vault_is_full |-> FALSE,
     ret |-> NullDatum, rows |-> <<>>,
     user_fctx |-> <<>>, max_calls |-> 0, call_cntr |-> 0,
     n0 |-> 0, absent0 |-> FALSE, rival |-> FALSE, snapshot |-> <<>>]

\* the arguments the calls are made with: ids of which one is the start of
\* another; a short key with a zero byte, given without a comment, and the
\* longest key but one that add_key accepts, given with a comment; and for
\* each argument the values add_key rejects
IdA == Datum(Bytes(<<97>>))
ValidIds == {IdA, Datum(Bytes(<<97, 98>>)), Datum(Bytes(<<99, 98>>))}
BadIds == {Datum(Fill(120, MAX_ID_LENGTH)), NullDatum}
KeySmall == Datum(Bytes(<<7, 0>>))
ValidKeys ==
    {<<KeySmall, NullDatum>>,
     <<Datum(Fill(98, MAX_KEY_LENGTH - 2)), Datum(Bytes(<<33>>))>>}
BadKeys == {Datum(Fill(1, MAX_KEY_LENGTH)), NullDatum}
BadComments == {Datum(Fill(121, MAX_COMMENT_LENGTH))}

AddInputs ==
    {<<i, k[1], k[2]>> : i \in ValidIds, k \in ValidKeys}
      \cup (BadIds \X {KeySmall} \X {NullDatum})
      \cup ({IdA} \X BadKeys \X {NullDatum})
      \cup ({IdA} \X {KeySmall} \X BadComments)
IdInputs == ValidIds \cup {NullDatum}

\* whether add_key's arguments pass its NULL and size checks
InBound(a_id, a_key, a_comment) ==
    /\ ~a_id.isnull /\ BLen(a_id.val) < MAX_ID_LENGTH
    /\ ~a_key.isnull /\ BLen(a_key.val) < MAX_KEY_LENGTH
    /\ a_comment.isnull \/ BLen(a_comment.val) < MAX_COMMENT_LENGTH

\* the record of a call: the function, its id argument, its key and comment
\* arguments when the call stored them, whether the arguments were in bound,
\* nitems on entry, and the outcome
Call(op, a_id, a_key, a_comment, inbound, n0, r) ==
    [op |-> op, id |-> a_id, key |-> a_key, comment |-> a_comment,
     inbound |-> inbound, n0 |-> n0,
     error |-> r.error, ret |-> r.ret, rows |-> r.rows]

Init ==
    /\ \E g \in RawBytes : vault_info = pgvault_shmem_startup(RawSegment(g), FALSE)
    /\ last = Call("startup", NullDatum, NullDatum, NullDatum, TRUE, 0,
                   Outcome(vault_info, "none", NullDatum, <<>>))
    /\ adds = [only |-> TRUE, ids |-> {}]
    /\ lwlock = [p \in Backends |-> "none"]
    /\ backend = [p \in Backends |-> IdleBackend]

AddKey ==
    \E in \in AddInputs :
        LET a_id == in[1]
            a_key == in[2]
            a_comment == in[3]
            r == add_key(vault_info, a_id, a_key, a_comment)
        IN  /\ vault_info' = r.vault
            /\ last' = Call("add_key", a_id,
                            IF r.error = "none" THEN a_key ELSE NullDatum,
                            IF r.error = "none" THEN a_comment ELSE NullDatum,
                            InBound(a_id, a_key, a_comment), vault_info.nitems, r)
            /\ adds' = IF /\ adds.only
                          /\ InBound(a_id, a_key, a_comment)
                          /\ a_id.val \notin adds.ids
                          /\ r.error = "none"
                       THEN [only |-> TRUE, ids |-> adds.ids \cup {a_id.val}]
                       ELSE [only |-> FALSE, ids |-> {}]
            /\ UNCHANGED <<lwlock, backend>>

DeleteKey ==
    \E a_id \in IdInputs :
        LET r == delete_key(vault_info, a_id)
        IN  /\ vault_info' = r.vault
            /\ last' = Call("delete_key", a_id, NullDatum, NullDatum, ~a_id.isnull,
                            vault_info.nitems, r)
            /\ adds' = [only |-> FALSE, ids |-> {}]
            /\ UNCHANGED <<lwlock, backend>>

LookupKey ==
    \E a_id \in IdInputs :
        LET r == lookup_key(vault_info, a_id)
        IN  /\ vault_info' = r.vault
            /\ last' = Call("lookup_key", a_id, NullDatum, NullDatum, ~a_id.isnull,
                            vault_info.nitems, r)
            /\ UNCHANGED <<adds, lwlock, backend>>

ListKeys ==
    LET r == list_keys(vault_info)
    IN  /\ vault_info' = r.vault
        /\ last' = Call("list_keys", NullDatum, NullDatum, NullDatum, TRUE,
                        vault_info.nitems, r)
        /\ UNCHANGED <<adds, lwlock, backend>>

DeleteKeys ==
    LET r == delete_keys(vault_info)
    IN  /\ vault_info' = r.vault
        /\ last' = Call("delete_keys", NullDatum, NullDatum, NullDatum, TRUE,
                        vault_info.nitems, r)
        /\ adds' = [only |-> FALSE, ids |-> {}]
        /\ UNCHANGED <<lwlock, backend>>

\* a backend attaches to the segment that exists (ShmemInitStruct sets found)
Attach ==
    LET v == pgvault_shmem_startup(vault_info, TRUE)
    IN  /\ vault_info' = v
        /\ last' = Call("startup", NullDatum, NullDatum, NullDatum, TRUE,
                        vault_info.nitems, Outcome(v, "none", NullDatum, <<>>))
        /\ adds' = [only |-> FALSE, ids |-> {}]
        /\ UNCHANGED <<lwlock, backend>>

Next == AddKey \/ DeleteKey \/ LookupKey \/ ListKeys \/ DeleteKeys \/ Attach

Spec == Init /\ [][Next]_vars

(***************************************************************************)
(* The concurrent state machine: NBackends backends call the functions at  *)
(* the same time.  A call advances in steps: the checks made before the    *)
(* lock is taken, LWLockAcquire, the statements of the locked section,     *)
(* LWLockRelease, and what follows the release.                            *)
(***************************************************************************)
\* the arguments of the concurrent calls
IdAb == Datum(Bytes(<<97, 98>>))
ConcAddInputs ==
    {<<IdA, KeySmall, NullDatum>>,
     <<IdAb, Datum(Fill(98, MAX_KEY_LENGTH - 2)), Datum(Bytes(<<33>>))>>,
     <<IdA, Datum(Fill(1, MAX_KEY_LENGTH)), NullDatum>>}
ConcIdInputs == {IdA, IdAb}

\* the modes of an LWLock, and the mode each function asks for
LW_EXCLUSIVE == "exclusive"
LW_SHARED == "shared"
\* add_key taking the lock in shared mode, as lookup_key does
add_key_lockmode_shared == LW_SHARED

add_key_lockmode == LW_EXCLUSIVE
delete_key_lockmode == LW_EXCLUSIVE
lookup_key_lockmode == LW_SHARED
list_keys_lockmode == LW_EXCLUSIVE
delete_keys_lockmode == LW_EXCLUSIVE

\* LWLockAcquire(lock, mode) by backend p returns when the lock can be held
\* in that mode: exclusively when no backend holds it, shared when no backend
\* holds it exclusively
LWLockGrantable(l, p, mode) ==
    IF mode = LW_EXCLUSIVE
    THEN \A q \in Backends : l[q] = "none"
    ELSE \A q \in Backends : l[q] # LW_EXCLUSIVE
LWLockAcquire(l, p, mode) == [l EXCEPT ![p] = mode]
\* a return path that leaves the lock held
LWLockRelease_skipped(l, p) == l

LWLockRelease(l, p) == [l EXCEPT ![p] = "none"]

\* the checks of add_key before the lock is taken: the error they raise
add_key_check(a_id, a_key, a_comment) ==
    IF a_id.isnull THEN "key ID must not be NULL"
    ELSE IF a_key.isnull THEN "key data must not be NULL"
    ELSE IF strlen(text_to_cstring(a_id)) >= MAX_ID_LENGTH
    THEN "key ID too long"
    ELSE IF ~a_comment.isnull
              /\ strlen(text_to_cstring(a_comment)) >= MAX_COMMENT_LENGTH
    THEN "comment too long"
    ELSE IF VARSIZE_ANY_EXHDR(PG_GETARG_BYTEA_P(a_key)) >= MAX_KEY_LENGTH
    THEN "key too long"
    ELSE "none"

\* the check of delete_key and lookup_key before the lock is taken
id_check(a_id) == IF a_id.isnull THEN "key ID must not be NULL" ELSE "none"

\* the positions at which a call acquires the lock: the mode it asks for and
\* the position that follows
AcquireSteps ==
    [add_acquire    |-> [mode |-> add_key_lockmode,     next |-> "add_scan"],
     delete_acquire |-> [mode |-> delete_key_lockmode,  next |-> "delete_body"],
     lookup_acquire |-> [mode |-> lookup_key_lockmode,  next |-> "lookup_body"],
     list_acquire   |-> [mode |-> list_keys_lockmode,   next |-> "list_snapshot"],
     clear_acquire  |-> [mode |-> delete_keys_lockmode, next |-> "clear_body"]]

\* add_key going back for the lock after it has released it
ReleaseSteps_retry ==
    [add_release    |-> "add_acquire",
     delete_release |-> "idle",
     lookup_release |-> "lookup_return",
     list_release   |-> "list_emit",
     clear_release  |-> "idle"]

\* the positions at which a call releases the lock and the position that
\* follows ("idle": the function returns right after the release)
ReleaseSteps ==
    [add_release    |-> "add_report",
     delete_release |-> "idle",
     lookup_release |-> "lookup_return",
     list_release   |-> "list_emit",
     clear_release  |-> "idle"]

\* list_keys reading its rows from the shared segment instead of the copy
list_keys_source_shared(user_fctx, shared) == shared

\* the tuple list_keys reads its rows from: the copy kept in user_fctx
list_keys_source(user_fctx, shared) == user_fctx

\* backend p enters add_key with the locals b; n0, absent0 and rival record
\* what held when the call began: nitems, whether the id was read back from no
\* item, and whether another backend was in add_key with the same id, waiting
\* for the lock
Enter(p, b) ==
    [backend EXCEPT ![p] =
        [b EXCEPT !.n0 = vault_info.nitems,
                  !.absent0 = FindItem(vault_info, text_to_cstring(b.id)) = -1,
                  !.rival = \E q \in Backends \ {p} :
                               /\ backend[q].pc = "add_acquire"
                               /\ backend[q].id = b.id]]

CallAddKey(p) ==
    /\ backend[p].pc = "idle"
    /\ \E in \in ConcAddInputs :
          LET err == add_key_check(in[1], in[2], in[3])
          IN  /\ backend' =
                   IF err # "none"
                   THEN [backend EXCEPT ![p] = [IdleBackend EXCEPT !.error = err]]
                   ELSE Enter(p, [IdleBackend EXCEPT !.pc = "add_acquire",
                                     !.id = in[1], !.key = in[2], !.comment = in[3]])
              /\ adds' = IF adds.only /\ err = "none" /\ in[1].val \notin adds.ids
                         THEN [only |-> TRUE, ids |-> adds.ids \cup {in[1].val}]
                         ELSE [only |-> FALSE, ids |-> {}]
    /\ UNCHANGED <<vault_info, last, lwlock>>

CallDeleteKey(p) ==
    /\ backend[p].pc = "idle"
    /\ \E a_id \in ConcIdInputs :
          backend' =
             IF id_check(a_id) # "none"
             THEN [backend EXCEPT ![p] = [IdleBackend EXCEPT !.error = id_check(a_id)]]
             ELSE [backend EXCEPT ![p] =
                     [IdleBackend EXCEPT !.pc = "delete_acquire", !.id = a_id]]
    /\ adds' = [only |-> FALSE, ids |-> {}]
    /\ UNCHANGED <<vault_info, last, lwlock>>

CallLookupKey(p) ==
    /\ backend[p].pc = "idle"
    /\ \E a_id \in ConcIdInputs :
          backend' =
             IF id_check(a_id) # "none"
             THEN [backend EXCEPT ![p] = [IdleBackend EXCEPT !.error = id_check(a_id)]]
             ELSE [backend EXCEPT ![p] =
                     [IdleBackend EXCEPT !.pc = "lookup_acquire", !.id = a_id]]
    /\ adds' = [only |-> FALSE, ids |-> {}]
    /\ UNCHANGED <<vault_info, last, lwlock>>

CallListKeys(p) ==
    /\ backend[p].pc = "idle"
    /\ backend' = [backend EXCEPT ![p] = [IdleBackend EXCEPT !.pc = "list_acquire"]]
    /\ adds' = [only |-> FALSE, ids |-> {}]
    /\ UNCHANGED <<vault_info, last, lwlock>>

CallDeleteKeys(p) ==
    /\ backend[p].pc = "idle"
    /\ backend' = [backend EXCEPT ![p] = [IdleBackend EXCEPT !.pc = "clear_acquire"]]
    /\ adds' = [only |-> FALSE, ids |-> {}]
    /\ UNCHANGED <<vault_info, last, lwlock>>

\* LWLockAcquire(vault_info->lock, mode)
Acquire(p) ==
    /\ backend[p].pc \in DOMAIN AcquireSteps
    /\ LWLockGrantable(lwlock, p, AcquireSteps[backend[p].pc].mode)
    /\ lwlock' = LWLockAcquire(lwlock, p, AcquireSteps[backend[p].pc].mode)
    /\ backend' = [backend EXCEPT ![p].pc = AcquireSteps[backend[p].pc].next]
    /\ UNCHANGED <<vault_info, last, adds>>

\* LWLockRelease(vault_info->lock)
Release(p) ==
    /\ backend[p].pc \in DOMAIN ReleaseSteps
    /\ lwlock' = LWLockRelease(lwlock, p)
    /\ backend' = [backend EXCEPT ![p] =
                      IF ReleaseSteps[backend[p].pc] = "idle" THEN IdleBackend
                      ELSE [backend[p] EXCEPT !.pc = ReleaseSteps[backend[p].pc]]]
    /\ UNCHANGED <<vault_info, last, adds>>

\* add_key: the scan for the id and the test for room
AddScan(p) ==
    /\ backend[p].pc = "add_scan"
    /\ backend' = [backend EXCEPT
          ![p].key_id_unique =
               FindItem(vault_info, text_to_cstring(backend[p].id)) = -1,
          ![p].vault_is_full = vault_info.nitems >= vault_info.maxitems,
          ![p].pc = "add_store"]
    /\ UNCHANGED <<vault_info, last, adds, lwlock>>

\* add_key: the guarded write of the new item
AddStore(p) ==
    /\ backend[p].pc = "add_store"
    /\ vault_info' =
          IF add_key_may_store(backend[p].vault_is_full, backend[p].key_id_unique)
          THEN add_key_store(vault_info, text_to_cstring(backend[p].id),
                             PG_GETARG_BYTEA_P(backend[p].key),
                             backend[p].comment.isnull,
                             text_to_cstring(backend[p].comment))
          ELSE vault_info
    /\ backend' = [backend EXCEPT ![p].pc = "add_release"]
    /\ UNCHANGED <<last, adds, lwlock>>

\* add_key: the errors raised, or the return, after the release
AddReport(p) ==
    /\ backend[p].pc = "add_report"
    /\ backend' = [backend EXCEPT ![p] =
          [IdleBackend EXCEPT !.error =
              add_key_report(backend[p].vault_is_full, backend[p].key_id_unique)]]
    /\ UNCHANGED <<vault_info, last, adds, lwlock>>

\* delete_key: the loop
DeleteBody(p) ==
    /\ backend[p].pc = "delete_body"
    /\ vault_info' = delete_key(vault_info, backend[p].id).vault
    /\ backend' = [backend EXCEPT ![p].pc = "delete_release"]
    /\ UNCHANGED <<last, adds, lwlock>>

\* lookup_key: the loop, and the return of the copy after the release
LookupBody(p) ==
    /\ backend[p].pc = "lookup_body"
    /\ backend' = [backend EXCEPT
          ![p].ret = lookup_key(vault_info, backend[p].id).ret,
          ![p].pc = "lookup_release"]
    /\ UNCHANGED <<vault_info, last, adds, lwlock>>

LookupReturn(p) ==
    /\ backend[p].pc = "lookup_return"
    /\ backend' = [backend EXCEPT ![p] = IdleBackend]
    /\ UNCHANGED <<vault_info, last, adds, lwlock>>

\* list_keys, first call: max_calls and the copy are taken
ListSnapshot(p) ==
    /\ backend[p].pc = "list_snapshot"
    /\ backend' = [backend EXCEPT
          ![p].max_calls = vault_info.nitems,
          ![p].user_fctx = vault_copy(vault_info, TRUE),
          ![p].snapshot = vault_info,
          ![p].pc = "list_release"]
    /\ UNCHANGED <<vault_info, last, adds, lwlock>>

\* list_keys, each call: the next row, or the end of the set
ListEmit(p) ==
    /\ backend[p].pc = "list_emit"
    /\ backend' =
          IF backend[p].max_calls > backend[p].call_cntr
          THEN [backend EXCEPT
                  ![p].rows = Append(backend[p].rows,
                                list_keys_tuple(
                                   list_keys_source(backend[p].user_fctx, vault_info),
                                   backend[p].call_cntr)),
                  ![p].call_cntr = backend[p].call_cntr + 1]
          ELSE [backend EXCEPT ![p] = IdleBackend]
    /\ UNCHANGED <<vault_info, last, adds, lwlock>>

\* delete_keys: the memset
ClearBody(p) ==
    /\ backend[p].pc = "clear_body"
    /\ vault_info' = delete_keys(vault_info).vault
    /\ backend' = [backend EXCEPT ![p].pc = "clear_release"]
    /\ UNCHANGED <<last, adds, lwlock>>

\* the steps backend p takes by itself once it is inside a function: none of
\* them waits for another backend
Section(p) ==
    \/ AddScan(p) \/ AddStore(p) \/ AddReport(p)
    \/ DeleteBody(p) \/ LookupBody(p) \/ LookupReturn(p)
    \/ ListSnapshot(p) \/ ClearBody(p)
    \/ Release(p)

\* the steps of backend p inside a call; the executor asks list_keys for each
\* further row
Step(p) == Section(p) \/ ListEmit(p)

ConcNext ==
    \E p \in Backends :
        \/ CallAddKey(p) \/ CallDeleteKey(p) \/ CallLookupKey(p)
        \/ CallListKeys(p) \/ CallDeleteKeys(p)
        \/ Acquire(p)
        \/ Step(p)

ConcSpec == Init /\ [][ConcNext]_vars

\* backend p is blocked in LWLockAcquire
Waiting(p) == backend[p].pc \in DOMAIN AcquireSteps

\* backend p is at one of the steps of Section(p): each of them is enabled
\* whenever p is at it and moves p on, so that InSection(p) is
\* ENABLED <<Section(p)>>_vars
InSection(p) ==
    backend[p].pc \notin ({"idle", "list_emit"} \cup DOMAIN AcquireSteps)

\* A backend that is running goes on running (no holder of the lock crashes or
\* stops): WF_vars(Section(p)), written out with InSection(p) for its ENABLED.
\* The lock is fair: no backend is left waiting in LWLockAcquire for ever.
FairSpec ==
    /\ ConcSpec
    /\ \A p \in Backends :
          ([]<>(~InSection(p))) \/ ([]<><<Section(p)>>_vars)
    /\ \A p \in Backends : []<>(~Waiting(p))

(***************************************************************************)
(* What the claims are stated with                                         *)
(***************************************************************************)
\* the id of items[i] as the code reads it back (a C string)
StoredId(v, i) == CStringAt(v, IdAddr(i))

\* what lookup_key returns for an id given by its characters
Lookup(v, chars) == lookup_key(v, Datum(chars)).ret

\* the item the scan of the last call would stop at, in segment v
ScanOf(v, call) == FindItem(v, text_to_cstring(call.id))

\* a segment that holds the same ids and comments in the same items as v but
\* other payloads: every data byte of every stored key is changed
OtherPayloads(v) ==
    [v EXCEPT !.items =
        [i \in DOMAIN v.items |->
            IF i < v.nitems
            THEN [v.items[i] EXCEPT !.key =
                    LET data == Drop(v.items[i].key, VARHDRSZ)
                    IN  Trim(Cat(Take(v.items[i].key, VARHDRSZ),
                                 [r \in 1..Len(data) |->
                                    <<(data[r][1] + 1) % 256, data[r][2]>>]))]
            ELSE v.items[i]]]

(***************************************************************************)
(* C1: after add_key(id, key, comment) returns without error, lookup_key   *)
(* of id, called next, returns exactly the bytes of key.                   *)
(***************************************************************************)
C1_AddThenLookup ==
    (last.op = "add_key" /\ last.error = "none")
        => lookup_key(vault_info, last.id).ret = last.key

(***************************************************************************)
(* C2: no two of the items 0..nitems-1 hold the same id, as read back from *)
(* the item.                                                               *)
(***************************************************************************)
C2_UniqueIds ==
    \A i, j \in 0..(vault_info.nitems - 1) :
        i # j => StoredId(vault_info, i) # StoredId(vault_info, j)

(***************************************************************************)
(* C3: every row list_keys returns has its key column NULL, and list_keys  *)
(* returns the same rows for a segment that holds the same ids and         *)
(* comments in the same items but other payloads.                          *)
(***************************************************************************)
C3_ListHidesPayload ==
    LET rows == list_keys(vault_info).rows
    IN  /\ \A r \in 1..Len(rows) : rows[r].key = NullDatum
        /\ list_keys(OtherPayloads(vault_info)).rows = rows
        /\ last.op = "list_keys" => last.rows = rows

C3_Witness ==
    /\ last.op = "list_keys"
    /\ Len(last.rows) = vault_info.maxitems
    /\ \A i \in 0..(vault_info.nitems - 1) :
          /\ VARSIZE_ANY_EXHDR(ReadMem(vault_info, KeyAddr(i), VARHDRSZ)) > 0
          /\ OtherPayloads(vault_info).items[i].key # vault_info.items[i].key

(***************************************************************************)
(* C4: an add_key that raises an error leaves the segment as it was:       *)
(* nitems, maxitems and every byte of every item.                          *)
(***************************************************************************)
C4_RejectedAddLeavesStore ==
    [][(last'.op = "add_key" /\ last'.error # "none")
          => vault_info' = vault_info]_vars

C4_Witness ==
    /\ last.op = "add_key"
    /\ last.error = "the supplied key ID is not unique"
    /\ last.inbound
    /\ vault_info.nitems > 0

(***************************************************************************)
(* C5: add_key with an id that one of the items 0..nitems-1 holds raises   *)
(* the not-unique error, also when the vault is full, leaves nitems as it  *)
(* was, and lookup_key of the id returns the same payload after it as      *)
(* before.  As claimed, for all arguments; as amended, for arguments that  *)
(* pass the size checks.                                                   *)
(***************************************************************************)
DuplicateRejected ==
    /\ last'.error = "the supplied key ID is not unique"
    /\ vault_info'.nitems = vault_info.nitems
    /\ ~lookup_key(vault_info', last'.id).ret.isnull
    /\ lookup_key(vault_info', last'.id).ret = lookup_key(vault_info, last'.id).ret

C5_DuplicateAlwaysRejected ==
    [][(last'.op = "add_key" /\ ~last'.id.isnull /\ ScanOf(vault_info, last') # -1)
          => DuplicateRejected]_vars

C5_InBoundDuplicateRejected ==
    [][(last'.op = "add_key" /\ last'.inbound /\ ScanOf(vault_info, last') # -1)
          => DuplicateRejected]_vars

C5_Witness ==
    /\ last.op = "add_key"
    /\ last.inbound
    /\ last.error = "the supplied key ID is not unique"
    /\ last.n0 = vault_info.maxitems
    /\ vault_info.nitems = vault_info.maxitems

(***************************************************************************)
(* C6: 0 <= nitems <= maxitems always; and from the freshly initialized    *)
(* segment, add_key calls with in-bound arguments and pairwise distinct    *)
(* ids succeed while fewer than maxitems were made, and the next one       *)
(* raises the vault-is-full error and leaves nitems = maxitems.            *)
(***************************************************************************)
C6_CountInBounds ==
    0 <= vault_info.nitems /\ vault_info.nitems <= vault_info.maxitems

C6_DistinctAdd ==
    (adds.only /\ last'.op = "add_key" /\ last'.inbound
        /\ last'.id.val \notin adds.ids)
      => IF Cardinality(adds.ids) < vault_info.maxitems
         THEN /\ last'.error = "none"
              /\ vault_info'.nitems = vault_info.nitems + 1
         ELSE /\ last'.error = "cannot add a key - the vault is full"
              /\ vault_info'.nitems = vault_info.maxitems

C6_CapacityBound == []C6_CountInBounds /\ [][C6_DistinctAdd]_vars

(***************************************************************************)
(* C7: after delete_key(id), lookup_key(id) returns NULL.                  *)
(***************************************************************************)
C7_DeleteThenLookup ==
    (last.op = "delete_key" /\ ~last.id.isnull)
        => lookup_key(vault_info, last.id).ret.isnull

(***************************************************************************)
(* C8: delete_key of an id found at items[i] decrements nitems by one,     *)
(* makes items[i] the former last item, leaves the other items below       *)
(* nitems as they were, and every other id that was stored still looks up  *)
(* to the payload it looked up to before.                                  *)
(***************************************************************************)
C8_DeleteOne ==
    LET i == ScanOf(vault_info, last')
        n == vault_info.nitems
    IN  (last'.op = "delete_key" /\ ~last'.id.isnull /\ i # -1)
          => /\ vault_info'.nitems = n - 1
             /\ vault_info'.items[i] = vault_info.items[n - 1]
             /\ \A j \in 0..(n - 2) :
                   j # i => vault_info'.items[j] = vault_info.items[j]
             /\ \A j \in 0..(n - 1) :
                   StoredId(vault_info, j) # last'.id.val
                     => Lookup(vault_info', StoredId(vault_info, j))
                          = Lookup(vault_info, StoredId(vault_info, j))

C8_DeleteRemovesOneRecord == [][C8_DeleteOne]_vars

(***************************************************************************)
(* C9: delete_key of an id that none of the items 0..nitems-1 holds        *)
(* returns without error and leaves the segment as it was.                 *)
(***************************************************************************)
C9_DeleteMissingIsNoOp ==
    [][(last'.op = "delete_key" /\ ~last'.id.isnull
          /\ ScanOf(vault_info, last') = -1)
          => (last'.error = "none" /\ vault_info' = vault_info)]_vars

C9_Witness ==
    /\ last.op = "delete_key"
    /\ ~last.id.isnull
    /\ last.error = "none"
    /\ last.n0 = vault_info.nitems
    /\ vault_info.nitems = vault_info.maxitems

(***************************************************************************)
(* C10: after delete_keys, nitems = 0, every byte of every item is zero,   *)
(* maxitems and lock are what they were, and lookup_key returns NULL for   *)
(* every id that was stored.                                               *)
(***************************************************************************)
C10_ClearEmptiesStore ==
    [][last'.op = "delete_keys"
          => /\ vault_info'.nitems = 0
             /\ \A i \in 0..(vault_info.maxitems - 1) :
                   vault_info'.items[i] = ZeroItem
             /\ vault_info'.maxitems = vault_info.maxitems
             /\ vault_info'.lock = vault_info.lock
             /\ \A i \in 0..(vault_info.nitems - 1) :
                   Lookup(vault_info', StoredId(vault_info, i)).isnull]_vars

C10_Witness ==
    /\ last.op = "delete_keys"
    /\ last.n0 = vault_info.maxitems
    /\ vault_info.nitems = 0

(***************************************************************************)
(* C11: list_keys returns nitems rows, and the row of a record carries the *)
(* id and the comment supplied to the add_key that created it (no comment  *)
(* appearing as the empty text): stated for the record created by the last *)
(* call, which list_keys returns as its last row.                          *)
(***************************************************************************)
C11_ListCarriesSupplied ==
    LET rows == list_keys(vault_info).rows
    IN  /\ Len(rows) = vault_info.nitems
        /\ last.op = "list_keys" => Len(last.rows) = last.n0
        /\ (last.op = "add_key" /\ last.error = "none")
              => rows[vault_info.nitems] =
                   [id      |-> last.id,
                    key     |-> NullDatum,
                    comment |-> IF last.comment.isnull THEN Datum(<<>>)
                                ELSE last.comment]

(***************************************************************************)
(* C15: an add_key that returns without error wrote inside the arrays of   *)
(* items[nitems] only: the id has at most MAX_ID_LENGTH - 1 bytes, the     *)
(* comment at most MAX_COMMENT_LENGTH - 1, the key with its header at most *)
(* MAX_KEY_LENGTH, and every other item and the bytes after the last item  *)
(* are as they were.                                                       *)
(***************************************************************************)
C15_AddStaysInFields ==
    [][(last'.op = "add_key" /\ last'.error = "none")
          => /\ BLen(last'.id.val) <= MAX_ID_LENGTH - 1
             /\ BLen(last'.comment.val) <= MAX_COMMENT_LENGTH - 1
             /\ VARSIZE_ANY(PG_GETARG_BYTEA_P(last'.key)) <= MAX_KEY_LENGTH
             /\ \A j \in DOMAIN vault_info.items :
                   j # vault_info.nitems
                     => vault_info'.items[j] = vault_info.items[j]
             /\ vault_info'.tail = vault_info.tail]_vars

(***************************************************************************)
(* C16: the first pgvault_shmem_startup leaves nitems = 0, every byte of   *)
(* the items zero and maxitems the number of whole items that fit after    *)
(* the header; a later one (found) leaves the segment as it was; and       *)
(* maxitems has that value in every reachable state.                       *)
(***************************************************************************)
C16_CapacityFits ==
    /\ vault_info.maxitems * sizeof_VaultItemData
          <= pgvault_mem_max_size - offsetof_items
    /\ pgvault_mem_max_size - offsetof_items
          < (vault_info.maxitems + 1) * sizeof_VaultItemData

C16_FirstAttach ==
    (last.op = "startup" /\ adds.only)
        => /\ vault_info.nitems = 0
           /\ \A i \in DOMAIN vault_info.items : vault_info.items[i] = ZeroItem
           /\ vault_info.tail = <<>>

C16_InitIdempotent ==
    /\ [](C16_CapacityFits /\ C16_FirstAttach)
    /\ [][last'.op = "startup" => vault_info' = vault_info]_vars

C16_Witness ==
    /\ last.op = "startup"
    /\ ~adds.only
    /\ vault_info.nitems = vault_info.maxitems

(***************************************************************************)
(* C19: the copy vault_copy returns holds no key bytes: the key array of   *)
(* every item of the copy, those at nitems and above included, is zero.    *)
(***************************************************************************)
C19_CopyHoldsNoKeys ==
    \A i \in DOMAIN vault_info.items :
        vault_copy(vault_info, TRUE).items[i].key = <<>>

(***************************************************************************)
(* C12: when every call made so far is an add_key with in-bound arguments  *)
(* and an id not supplied before, made on the freshly initialized segment  *)
(* by concurrent backends, each of them returns without error, and once    *)
(* all have returned nitems is the number of ids supplied and each         *)
(* supplied id is read back from exactly one of the items below nitems.    *)
(***************************************************************************)
C12_EachSucceeds ==
    \A p \in Backends :
        (adds.only /\ backend[p].pc = "add_report" /\ backend'[p].pc = "idle")
            => backend'[p].error = "none"

C12_FinalState ==
    (adds.only /\ \A p \in Backends : backend[p].pc = "idle"
       /\ Cardinality(adds.ids) <= vault_info.maxitems)
        => /\ vault_info.nitems = Cardinality(adds.ids)
           /\ \A id \in adds.ids :
                 Cardinality({i \in 0..(vault_info.nitems - 1) :
                                 StoredId(vault_info, i) = id}) = 1

C12_ConcurrentDistinctAdds == []C12_FinalState /\ [][C12_EachSucceeds]_vars

(***************************************************************************)
(* C13: at most one backend holds the lock exclusively and then no other   *)
(* backend holds it; a backend in the locked section of add_key,           *)
(* delete_key, delete_keys or list_keys holds it exclusively, one in the   *)
(* locked section of lookup_key holds it shared; and every step that       *)
(* changes the segment is taken by a backend that holds it exclusively.    *)
(***************************************************************************)
C13_LockState ==
    /\ \A p, q \in Backends :
          (p # q /\ lwlock[p] = LW_EXCLUSIVE) => lwlock[q] = "none"
    /\ \A p \in Backends :
          /\ backend[p].pc \in {"add_scan", "add_store", "delete_body",
                                "clear_body", "list_snapshot"}
                => lwlock[p] = LW_EXCLUSIVE
          /\ backend[p].pc = "lookup_body" => lwlock[p] = LW_SHARED

C13_WriteUnderLock ==
    vault_info' # vault_info
        => \E p \in Backends :
              /\ backend'[p] # backend[p]
              /\ lwlock[p] = LW_EXCLUSIVE
              /\ lwlock'[p] = LW_EXCLUSIVE

C13_SingleWriterMultipleReader == []C13_LockState /\ [][C13_WriteUnderLock]_vars

C13_Witness ==
    \E p, q \in Backends :
        /\ backend[p].pc = "add_store" /\ lwlock[p] = LW_EXCLUSIVE
        /\ backend[p].key_id_unique /\ ~backend[p].vault_is_full
        /\ backend[q].pc = "lookup_acquire"

(***************************************************************************)
(* C14: the rows list_keys returns are those of the segment as it was when *)
(* the copy was taken: row c carries the id and comment read from item c   *)
(* of that segment, and the set ends after as many rows as nitems was      *)
(* then, whatever the other backends did to the segment since.             *)
(***************************************************************************)
C14_RowsOfSnapshot ==
    \A p \in Backends :
        backend[p].pc = "list_emit"
          => LET c == backend[p].call_cntr
                 snap == backend[p].snapshot
             IN  IF backend'[p].pc = "idle"
                 THEN c = snap.nitems
                 ELSE backend'[p].call_cntr = c + 1
                        => /\ c < snap.nitems
                           /\ backend'[p].rows[c + 1] =
                                [id      |-> Datum(StoredId(snap, c)),
                                 key     |-> NullDatum,
                                 comment |-> Datum(CStringAt(snap, CommentAddr(c)))]

C14_SnapshotIsIndependent == [][C14_RowsOfSnapshot]_vars

C14_Witness ==
    \E p \in Backends :
        /\ backend[p].pc = "list_emit"
        /\ backend[p].call_cntr = backend[p].max_calls
        /\ backend[p].max_calls = vault_info.maxitems
        /\ vault_info.nitems = 0

(***************************************************************************)
(* C17: when one of two backends entered add_key while the other was in    *)
(* add_key with the same id and waiting for the lock, the id was read back *)
(* from no item and nitems was the same and below maxitems when each of    *)
(* the two calls began, then once both have left the locked section one of *)
(* them has written its item, the other has found the id not unique, and   *)
(* nitems is one more than it was.                                         *)
(***************************************************************************)
C17_OneOfTwoWins ==
    \A p, q \in Backends :
        (/\ p # q
         /\ backend[p].pc \in {"add_release", "add_report"}
         /\ backend[q].pc \in {"add_release", "add_report"}
         /\ backend[p].id = backend[q].id
         /\ backend[q].rival
         /\ backend[p].absent0 /\ backend[q].absent0
         /\ backend[p].n0 = backend[q].n0
         /\ backend[p].n0 < vault_info.maxitems)
        => /\ vault_info.nitems = backend[p].n0 + 1
           /\ \/ /\ add_key_report(backend[p].vault_is_full,
                                   backend[p].key_id_unique) = "none"
                 /\ add_key_report(backend[q].vault_is_full,
                                   backend[q].key_id_unique)
                      = "the supplied key ID is not unique"
              \/ /\ add_key_report(backend[q].vault_is_full,
                                   backend[q].key_id_unique) = "none"
                 /\ add_key_report(backend[p].vault_is_full,
                                   backend[p].key_id_unique)
                      = "the supplied key ID is not unique"

(***************************************************************************)
(* C18: a backend that is in no call, or in add_key before the lock is     *)
(* acquired or after it is released, does not hold the lock; and the step  *)
(* of a backend that raises an error begins and ends with that backend not *)
(* holding the lock.                                                       *)
(***************************************************************************)
C18_NoLockOutside ==
    \A p \in Backends :
        backend[p].pc \in {"idle", "add_acquire", "add_report"}
            => lwlock[p] = "none"

C18_ErrorStep ==
    \A p \in Backends :
        (backend'[p] # backend[p] /\ backend'[p].error # "none")
            => /\ backend'[p].pc = "idle"
               /\ lwlock[p] = "none"
               /\ lwlock'[p] = "none"

C18_ErrorsOutsideLock == []C18_NoLockOutside /\ [][C18_ErrorStep]_vars

C18_Witness ==
    \E p, q \in Backends :
        /\ backend[p].pc = "idle"
        /\ backend[p].error = "the supplied key ID is not unique"
        /\ backend[q].pc = "idle"
        /\ backend[q].error = "key too long"

(***************************************************************************)
(* C20: a backend starts waiting for the lock only on entering a function, *)
(* takes it only from that wait, and holds it neither outside a function   *)
(* nor once list_keys has taken its copy; and, when running backends keep  *)
(* running and the lock is fair, every backend inside add_key, delete_key, *)
(* lookup_key, delete_keys or the first call of list_keys eventually       *)
(* leaves it, holding the lock no more.                                    *)
(***************************************************************************)
Returned(p) == backend[p].pc \in {"idle", "list_emit"}

C20_AcquireOnce ==
    \A p \in Backends :
        /\ (Waiting(p)' /\ ~Waiting(p)) => backend[p].pc = "idle"
        /\ (lwlock'[p] # "none" /\ lwlock[p] = "none") => Waiting(p)
        /\ (lwlock'[p] # lwlock[p]) => (lwlock[p] = "none" \/ lwlock'[p] = "none")

C20_ReleasedOnReturn ==
    \A p \in Backends : Returned(p) => lwlock[p] = "none"

C20_EveryCallReturns ==
    /\ []C20_ReleasedOnReturn
    /\ [][C20_AcquireOnce]_vars
    /\ \A p \in Backends :
          (~Returned(p)) ~> (Returned(p) /\ lwlock[p] = "none")

C20_Witness ==
    \E p, q \in Backends :
        /\ p # q
        /\ lwlock[p] = LW_EXCLUSIVE /\ backend[p].pc = "clear_body"
        /\ backend[q].pc = "add_acquire"

==========================================================================
